---- MODULE Spec2Model ----
(***************************************************************************)
(* A model of src/index.js: three helpers built on the browser's fetch     *)
(* (fetchRequest, fetchFormData, fetchDownloadBlob), the private helpers   *)
(* they share (headers, paramsFormat, interceptors), and the environment   *)
(* they run in: the network, the abort timer, the promise callbacks of one *)
(* call.  One behaviour is one call.                                       *)
(*                                                                         *)
(* Strings that the code inspects or converts character by character       *)
(* (header names, query keys and values, the Content-Disposition header)   *)
(* are sequences of one-character strings; the conversions return strings. *)
(***************************************************************************)
EXTENDS Integers, Sequences, FiniteSets, TLC

VARIABLES
    fn,         \* the exported function that was called, "none" before the call
    url,        \* the url argument
    method,     \* fetchRequest's method argument
    params,     \* the params argument in effect (the default when omitted)
    options,    \* the request options handed to fetch
    reqUrl,     \* the URL handed to fetch
    timer,      \* the setTimeout of fetchRequest: state and delay in ms
    aborted,    \* controller.signal.aborted
    now,        \* seconds elapsed since the call, while its timer is armed
    stage,      \* where the promise chain of the call stands
    returned,   \* the promise the call returned (or "threw": none was returned)
    res,        \* the response fetch resolved with
    error,      \* the reason the chain is rejected with
    result,     \* the value the returned promise is fulfilled with
    console,    \* console.info / console.error calls, in order
    fileName,   \* fetchDownloadBlob: the fileName of the first then
    buffer,     \* fetchDownloadBlob: the promise of res.arrayBuffer(), its bytes
    dom,        \* fetchDownloadBlob: the download side effects, in order
    unhandled   \* a promise was rejected with no handler attached

vars == <<fn, url, method, params, options, reqUrl, timer, aborted, now, stage,
          returned, res, error, result, console, fileName, buffer, dom,
          unhandled>>

----------------------------------------------------------------------------
(* Bounds of the model *)

MaxQuery == 2       \* entries of params.query
MaxHeaders == 2     \* entries of params.headers
MaxData == 1        \* entries of params.data
MaxBytes == 1       \* byteLength of a response body buffer

(* Program constants *)

DefaultTimeout == 10        \* params.timeout || 10
MsPerSecond == 1000         \* timeout * 1000
baseURL == ""

----------------------------------------------------------------------------
(* Optional values: undefined / null is None *)

None == <<>>
Some(v) == <<v>>
IsSome(o) == o # <<>>
Val(o) == o[1]

(* The strictly increasing index sequences of 1..n of length at most k:    *)
(* the ways of picking the entries of a mapping from a pool of n entries.  *)
RECURSIVE Picks(_, _)
Picks(n, k) ==
    IF n = 0 \/ k = 0 THEN {<<>>}
    ELSE Picks(n - 1, k)
         \cup {Append(p, n) : p \in {q \in Picks(n - 1, k) : Len(q) < k}}

Pick(pool, k) == {[i \in 1..Len(p) |-> pool[p[i]]] : p \in Picks(Len(pool), k)}

----------------------------------------------------------------------------
(* Input domains *)

Methods == {"get", "post"}

\* params.query entries: key and value, as characters
QueryPool == << <<(<<"p">>), (<<"1">>)>>,
                <<(<<"q">>), (<<"a", " ", "&">>)>> >>

\* params.headers entries: name as characters, value
HeaderPool == << <<(<<"X", "-", "a">>), "1">>,
                 <<(<<"x", "-", "b">>), "2">>,
                 <<(<<"x", "-", "c">>), "3">> >>

\* params.data entries: key and a number or string value
DataPool == << <<"a", [t |-> "number", n |-> 1, s |-> ""]>>,
               <<"b", [t |-> "string", n |-> 0, s |-> "x"]>> >>

Queries == {None} \cup {Some(q) : q \in Pick(QueryPool, MaxQuery)}
HeaderMaps == {None} \cup {Some(h) : h \in Pick(HeaderPool, MaxHeaders)}
DataMaps == {None} \cup {Some(d) : d \in Pick(DataPool, MaxData)}
Timeouts == {None, Some(0), Some(1), Some(-1)}

\* fetchFormData's data argument: a FormData payload, opaque to the code
FormPayloads == {"FormData"}

\* HTTP statuses a response can carry
Statuses == {200, 400, 401, 403, 404, 413, 500}

\* Content-Disposition response header values: null when absent
Dispositions == {None,
                 Some(<<>>),
                 Some(<<"a", "%", "2", "0", "b">>),
                 Some(<<"a", "%", "2", "F", "b">>),
                 Some(<<"%", "z">>)}

\* values a JSON response body parses to
JsonValues == {"json"}

----------------------------------------------------------------------------
(* headers, src/index.js:4-6, and Headers.prototype.append                 *)

\* byte-lowercase of a character (the Headers object normalises names)
LowerChar(c) ==
    CASE c = "T" -> "t"
      [] c = "X" -> "x"
      [] OTHER -> c

Lower(cs) == [i \in 1..Len(cs) |-> LowerChar(cs[i])]

\* a header name is an HTTP token: no separators
Separators == {",", " ", ":", ";", "(", ")", "<", ">", "@", "\"", "/", "[",
               "]", "?", "=", "{", "}"}

IsHeaderName(cs) == Len(cs) > 0 /\ \A i \in 1..Len(cs) : cs[i] \notin Separators

\* String(array): the elements joined by ","
RECURSIVE ArrayToString(_)
ArrayToString(keys) ==
    IF keys = <<>> THEN <<>>
    ELSE IF Len(keys) = 1 THEN keys[1]
    ELSE keys[1] \o <<",">> \o ArrayToString(Tail(keys))

\* new Headers(init): init is a sequence of <<name, value>>
headers(init) == [i \in 1..Len(init) |-> <<Lower(init[i][1]), init[i][2]>>]

\* h.append(name, value): h with the entry added, or a TypeError
HeadersAppend(h, name, value) ==
    IF IsHeaderName(name)
    THEN [threw |-> FALSE, list |-> Append(h.list, <<Lower(name), value>>)]
    ELSE [threw |-> TRUE, list |-> h.list]

\* Object.keys(params.headers)
ObjectKeys(map) == [i \in 1..Len(map) |-> map[i][1]]

\* The header name the merge loop appends the value of `item` under
MergeName(keys, item) == ArrayToString(keys)

\* keys.forEach(item => options.headers.append(keys, params.headers[item])),
\* from the i-th key on; a throw ends the loop
RECURSIVE MergeFrom(_, _, _, _)
MergeFrom(h, map, keys, i) ==
    IF h.threw \/ i > Len(keys) THEN h
    ELSE MergeFrom(HeadersAppend(h, MergeName(keys, keys[i]), map[i][2]),
                   map, keys, i + 1)

\* if (params.headers) { ... }
MergeHeaders(list, hdrs) ==
    IF IsSome(hdrs)
    THEN MergeFrom([threw |-> FALSE, list |-> list], Val(hdrs),
                   ObjectKeys(Val(hdrs)), 1)
    ELSE [threw |-> FALSE, list |-> list]

----------------------------------------------------------------------------
(* paramsFormat, src/index.js:12-14: new URLSearchParams(json).toString()  *)

\* application/x-www-form-urlencoded byte serialisation of a character
FormEncodeChar(c) ==
    CASE c = " " -> "+"
      [] c = "&" -> "%26"
      [] c = "=" -> "%3D"
      [] c = "%" -> "%25"
      [] c = "?" -> "%3F"
      [] OTHER -> c

RECURSIVE FormEncode(_)
FormEncode(cs) ==
    IF cs = <<>> THEN "" ELSE FormEncodeChar(Head(cs)) \o FormEncode(Tail(cs))

RECURSIVE paramsFormat(_)
paramsFormat(json) ==
    IF json = <<>> THEN ""
    ELSE FormEncode(json[1][1]) \o "=" \o FormEncode(json[1][2])
         \o (IF Len(json) > 1 THEN "&" \o paramsFormat(Tail(json)) ELSE "")

----------------------------------------------------------------------------
(* JSON.stringify of a params.data mapping                                 *)

JsonValue(v) == IF v.t = "number" THEN ToString(v.n) ELSE "\"" \o v.s \o "\""

RECURSIVE JsonMembers(_)
JsonMembers(d) ==
    IF d = <<>> THEN ""
    ELSE "\"" \o d[1][1] \o "\":" \o JsonValue(d[1][2])
         \o (IF Len(d) > 1 THEN "," \o JsonMembers(Tail(d)) ELSE "")

JSONstringify(d) == "{" \o JsonMembers(d) \o "}"

----------------------------------------------------------------------------
(* decodeURI, as src/index.js:160 applies it to headers.get(...)           *)

HexDigits == {"0", "1", "2", "3", "4", "5", "6", "7", "8", "9",
              "A", "B", "C", "D", "E", "F", "a", "b", "c", "d", "e", "f"}

\* the character an escape %XY stands for; decodeURI leaves the escapes of
\* reserved characters ("/" is %2F) as they are
DecodeEscape(x, y) ==
    CASE x = "2" /\ y = "0" -> " "
      [] x = "4" /\ y = "1" -> "A"
      [] OTHER -> "%" \o x \o y

\* [ok, v]: ok is FALSE when decodeURI throws URIError
RECURSIVE DecodeChars(_)
DecodeChars(cs) ==
    IF cs = <<>> THEN [ok |-> TRUE, v |-> ""]
    ELSE IF Head(cs) # "%"
    THEN LET rest == DecodeChars(Tail(cs))
         IN  [ok |-> rest.ok, v |-> Head(cs) \o rest.v]
    ELSE IF Len(cs) < 3 \/ cs[2] \notin HexDigits \/ cs[3] \notin HexDigits
    THEN [ok |-> FALSE, v |-> ""]
    ELSE LET rest == DecodeChars(SubSeq(cs, 4, Len(cs)))
         IN  [ok |-> rest.ok, v |-> DecodeEscape(cs[2], cs[3]) \o rest.v]

\* String(x) of the argument: null becomes the text "null"
ToStringArg(o) == IF IsSome(o) THEN Val(o) ELSE <<"n", "u", "l", "l">>

decodeURI(o) == DecodeChars(ToStringArg(o))

----------------------------------------------------------------------------
(* interceptors, src/index.js:16-33                                        *)

\* the messages of the table, in English: 400 '请求参数错误', 403 '无权访问',
\* 404 '资源不存在', 413 '请求文件过大', 500 '服务器内部错误'
errCodes == [s \in {400, 403, 404, 413, 500} |->
    CASE s = 400 -> "bad request parameters"
      [] s = 403 -> "no access"
      [] s = 404 -> "resource does not exist"
      [] s = 413 -> "request file too large"
      [] s = 500 -> "internal server error"]

\* Response.ok
IsOk(status) == status >= 200 /\ status <= 299

\* a variant of interceptors that looks the status up in the table before
\* it logs, so that a 403 is thrown unlogged
interceptorsTableFirst(r) ==
    IF r.status # 0 /\ r.ok
    THEN [kind |-> "json", msg |-> "", log |-> <<>>]
    ELSE IF r.status \in DOMAIN errCodes
    THEN [kind |-> "throw", msg |-> errCodes[r.status], log |-> <<>>]
    ELSE [kind |-> "undefined", msg |-> "",
          log |-> IF r.status = 403 THEN << <<"info", "no access">> >> ELSE <<>>]

\* what interceptors does with a response: returns res.json() ("json"),
\* throws errCodes[status] ("throw") or returns undefined ("undefined"),
\* and what it logs before
interceptors(r) ==
    IF r.status # 0 /\ r.ok
    THEN [kind |-> "json", msg |-> "", log |-> <<>>]
    ELSE LET log == IF r.status = 403 THEN << <<"info", "no access">> >> ELSE <<>>
         IN  IF r.status \in DOMAIN errCodes
             THEN [kind |-> "throw", msg |-> errCodes[r.status], log |-> log]
             ELSE [kind |-> "undefined", msg |-> "", log |-> log]

----------------------------------------------------------------------------
(* The arguments of a call *)

Urls == {"/api/items"}

RequestParams == [query : Queries, data : DataMaps, headers : HeaderMaps,
                  timeout : Timeouts]

\* params = { query: {}, data: {}, headers: {}, timeout: 10 }, src/index.js:45
DefaultRequestParams ==
    [query |-> Some(<<>>), data |-> Some(<<>>), headers |-> Some(<<>>),
     timeout |-> Some(DefaultTimeout)]

\* fetchFormData and fetchDownloadBlob read query and headers only
OtherParams == [query : Queries, data : {None}, headers : HeaderMaps,
                timeout : {None}]

\* params = { query: {}, headers: {} }, src/index.js:99 and :136
DefaultOtherParams ==
    [query |-> Some(<<>>), data |-> None, headers |-> Some(<<>>),
     timeout |-> None]

(* Values of the variables before they are set *)

NoParams == [query |-> None, data |-> None, headers |-> None, timeout |-> None]
NoOptions == [method |-> "", headers |-> <<>>, body |-> None,
              signal |-> FALSE, credentials |-> ""]
NoTimer == [state |-> "none", delay |-> 0]
NoRes == [status |-> 0, ok |-> FALSE, disposition |-> None]
NoError == [name |-> "", message |-> None]
NoFileName == [kind |-> "none", v |-> ""]
NoBuffer == [state |-> "none", byteLength |-> 0]

Undefined == "undefined"

Init ==
    /\ fn = "none"
    /\ url = ""
    /\ method = ""
    /\ params = NoParams
    /\ options = NoOptions
    /\ reqUrl = ""
    /\ timer = NoTimer
    /\ aborted = FALSE
    /\ now = 0
    /\ stage = "idle"
    /\ returned = "none"
    /\ res = NoRes
    /\ error = NoError
    /\ result = None
    /\ console = <<>>
    /\ fileName = NoFileName
    /\ buffer = NoBuffer
    /\ dom = <<>>
    /\ unhandled = FALSE

----------------------------------------------------------------------------
(* fetchRequest, src/index.js:42-87: the synchronous part                  *)

ContentType == <<"c", "o", "n", "t", "e", "n", "t", "-", "T", "y", "p", "e">>

\* if (params.query) { url += queryString && `?${queryString}` }
RequestUrl(u, query) ==
    IF IsSome(query)
    THEN LET queryString == paramsFormat(Val(query))
         IN  u \o (IF queryString # "" THEN "?" \o queryString ELSE queryString)
    ELSE u

\* a variant of RequestBody that does not look at the method
RequestBodyAnyMethod(m, data) ==
    IF IsSome(data) THEN Some(JSONstringify(Val(data))) ELSE None

\* if (method !== 'get' && params.data) { options.body = JSON.stringify(..) }
RequestBody(m, data) ==
    IF m # "get" /\ IsSome(data) THEN Some(JSONstringify(Val(data))) ELSE None

\* a variant of EffectiveTimeout without the default: const timeout =
\* params.timeout, which is undefined, and not > 0, when not given
EffectiveTimeoutNoDefault(t) == IF IsSome(t) THEN Val(t) ELSE 0

\* const timeout = params.timeout || 10
EffectiveTimeout(t) == IF IsSome(t) /\ Val(t) # 0 THEN Val(t) ELSE DefaultTimeout

\* if (timeout > 0) { setTimeout(() => controller.abort(), timeout * 1000) }
ScheduleTimer(timeout) ==
    IF timeout > 0
    THEN [state |-> "armed", delay |-> timeout * MsPerSecond]
    ELSE NoTimer

\* A TypeError of Headers.append leaves the function before fetch is called
Throws(f, u, m, p, opts) ==
    /\ fn' = f
    /\ url' = u
    /\ method' = m
    /\ params' = p
    /\ options' = opts
    /\ returned' = "threw"
    /\ error' = [name |-> "TypeError", message |-> Some("Invalid name")]
    /\ UNCHANGED <<reqUrl, timer, aborted, now, stage, res, result, console,
                   fileName, buffer, dom, unhandled>>

\* fetch(reqUrl, options) is called and its promise chain returned
Issues(f, u, m, p, opts, requested, t) ==
    /\ fn' = f
    /\ url' = u
    /\ method' = m
    /\ params' = p
    /\ options' = opts
    /\ reqUrl' = baseURL \o requested
    /\ timer' = t
    /\ stage' = "fetching"
    /\ returned' = "pending"
    /\ UNCHANGED <<aborted, now, res, error, result, console, fileName,
                   buffer, dom, unhandled>>

fetchRequest(u, m, p) ==
    /\ fn = "none"
    /\ LET merged == MergeHeaders(headers(<< <<ContentType, "application/json">> >>),
                                  p.headers)
           opts == [method |-> m, headers |-> merged.list,
                    body |-> RequestBody(m, p.data), signal |-> TRUE,
                    credentials |-> "same-origin"]
       IN  IF merged.threw
           THEN Throws("fetchRequest", u, m, p, opts)
           ELSE Issues("fetchRequest", u, m, p, opts, RequestUrl(u, p.query),
                       ScheduleTimer(EffectiveTimeout(p.timeout)))

----------------------------------------------------------------------------
(* fetchFormData, src/index.js:96-125: the synchronous part                *)

\* if (params.query) { url += `?${paramsFormat(params.query)}` }
FormUrl(u, query) ==
    IF IsSome(query) THEN u \o "?" \o paramsFormat(Val(query)) ELSE u

fetchFormData(u, data, p) ==
    /\ fn = "none"
    /\ LET merged == MergeHeaders(headers(<<>>), p.headers)
           opts == [method |-> "post", headers |-> merged.list,
                    body |-> Some(data), signal |-> FALSE,
                    credentials |-> "same-origin"]
       IN  IF merged.threw
           THEN Throws("fetchFormData", u, "post", p, opts)
           ELSE Issues("fetchFormData", u, "post", p, opts, FormUrl(u, p.query),
                       NoTimer)

----------------------------------------------------------------------------
(* fetchDownloadBlob, src/index.js:134-181: the synchronous part           *)

\* if (params.query) { url += `?${paramsFormat(params.query)}` }
DownloadUrl(u, query) ==
    IF IsSome(query) THEN u \o "?" \o paramsFormat(Val(query)) ELSE u

fetchDownloadBlob(u, p) ==
    /\ fn = "none"
    /\ LET merged == MergeHeaders(headers(<<>>), p.headers)
           opts == [method |-> "get", headers |-> merged.list,
                    body |-> None, signal |-> FALSE,
                    credentials |-> "same-origin"]
       IN  IF merged.threw
           THEN Throws("fetchDownloadBlob", u, "get", p, opts)
           ELSE Issues("fetchDownloadBlob", u, "get", p, opts,
                       DownloadUrl(u, p.query), NoTimer)

----------------------------------------------------------------------------
(* The environment: the network, the clock and the abort timer.  These run *)
(* as tasks of the event loop, so only when no promise callback is queued. *)

\* stages in which a then / catch callback of the chain is queued
CallbackQueued == stage \in {"responded", "rejected", "extracted"}

\* the message of the AbortError a browser rejects an aborted fetch with
AbortMessages == {"The user aborted a request.", "The operation was aborted."}

\* fetch resolves with a response
FetchResolve(status, disposition) ==
    /\ stage = "fetching"
    /\ res' = [status |-> status, ok |-> IsOk(status),
               disposition |-> disposition]
    /\ stage' = "responded"
    /\ UNCHANGED <<fn, url, method, params, options, reqUrl, timer, aborted, now,
                   returned, error, result, console, fileName, buffer, dom,
                   unhandled>>

\* fetch rejects: the network failed
FetchReject ==
    /\ stage = "fetching"
    /\ error' = [name |-> "TypeError", message |-> Some("Failed to fetch")]
    /\ stage' = "rejected"
    /\ UNCHANGED <<fn, url, method, params, options, reqUrl, timer, aborted, now,
                   returned, res, result, console, fileName, buffer, dom,
                   unhandled>>

\* a second passes; a timer that is due fires before the clock moves on
Tick ==
    /\ timer.state = "armed"
    /\ ~CallbackQueued
    /\ now * MsPerSecond < timer.delay
    /\ now' = now + 1
    /\ UNCHANGED <<fn, url, method, params, options, reqUrl, timer, aborted, stage,
                   returned, res, error, result, console, fileName, buffer,
                   dom, unhandled>>

\* () => controller.abort(), src/index.js:73: the signal aborts the fetch,
\* or the reading of the body, when either is still going on
TimerFire(message) ==
    /\ timer.state = "armed"
    /\ ~CallbackQueued
    /\ now * MsPerSecond >= timer.delay
    /\ timer' = [timer EXCEPT !.state = "fired"]
    /\ aborted' = TRUE
    /\ IF stage \in {"fetching", "parsing"}
       THEN /\ stage' = "rejected"
            /\ error' = [name |-> "AbortError", message |-> Some(message)]
       ELSE UNCHANGED <<stage, error>>
    /\ UNCHANGED <<fn, url, method, params, options, reqUrl, now, returned, res,
                   result, console, fileName, buffer, dom, unhandled>>

\* res.json() fulfils with the parsed body
JsonResolve(v) ==
    /\ stage = "parsing"
    /\ stage' = "settled"
    /\ returned' = "fulfilled"
    /\ result' = Some(v)
    /\ UNCHANGED <<fn, url, method, params, options, reqUrl, timer, aborted, now,
                   res, error, console, fileName, buffer, dom, unhandled>>

\* res.json() rejects: the body is not JSON
JsonReject ==
    /\ stage = "parsing"
    /\ stage' = "rejected"
    /\ error' = [name |-> "SyntaxError", message |-> Some("Unexpected token")]
    /\ UNCHANGED <<fn, url, method, params, options, reqUrl, timer, aborted, now,
                   returned, res, result, console, fileName, buffer, dom,
                   unhandled>>

----------------------------------------------------------------------------
(* The callbacks of fetchRequest and fetchFormData                         *)

\* .then(res => { return interceptors(res) }), src/index.js:77-79, 119-121
ThenInterceptors ==
    /\ fn \in {"fetchRequest", "fetchFormData"}
    /\ stage = "responded"
    /\ LET out == interceptors(res)
       IN  /\ console' = console \o out.log
           /\ CASE out.kind = "json" ->
                     /\ stage' = "parsing"
                     /\ UNCHANGED <<returned, result, error>>
                [] out.kind = "throw" ->
                     /\ stage' = "rejected"
                     /\ error' = [name |-> out.msg, message |-> None]
                     /\ UNCHANGED <<returned, result>>
                [] OTHER ->
                     /\ stage' = "settled"
                     /\ returned' = "fulfilled"
                     /\ result' = Some(Undefined)
                     /\ UNCHANGED error
    /\ UNCHANGED <<fn, url, method, params, options, reqUrl, timer, aborted, now,
                   res, fileName, buffer, dom, unhandled>>

\* error?.message?.includes('The user aborted a request')
IsTimeoutError(e) ==
    IsSome(e.message) /\ Val(e.message) = "The user aborted a request."

\* what the catch of fetchRequest logs, src/index.js:81-85
RequestCatchLog(e, u) ==
    IF IsTimeoutError(e)
    THEN <<"error", "request timeout: ", u>>
    ELSE <<"error", "request error: ", e.name>>

\* .catch(error => { ... }), src/index.js:80-86
CatchRequest ==
    /\ fn = "fetchRequest"
    /\ stage = "rejected"
    /\ console' = Append(console, RequestCatchLog(error, reqUrl))
    /\ stage' = "settled"
    /\ returned' = "fulfilled"
    /\ result' = Some(Undefined)
    /\ UNCHANGED <<fn, url, method, params, options, reqUrl, timer, aborted, now,
                   res, error, fileName, buffer, dom, unhandled>>

\* .catch(error => { console.error('请求错误: ', error) }), src/index.js:122-124
CatchFormData ==
    /\ fn = "fetchFormData"
    /\ stage = "rejected"
    /\ console' = Append(console, <<"error", "request error: ", error.name>>)
    /\ stage' = "settled"
    /\ returned' = "fulfilled"
    /\ result' = Some(Undefined)
    /\ UNCHANGED <<fn, url, method, params, options, reqUrl, timer, aborted, now,
                   res, error, fileName, buffer, dom, unhandled>>

----------------------------------------------------------------------------
(* The callbacks of fetchDownloadBlob                                      *)

\* decodeURI(res.headers.get('Content-Disposition')) || new Date().getTime()
DownloadFileName(decoded) ==
    IF decoded # "" THEN [kind |-> "string", v |-> decoded]
    ELSE [kind |-> "timestamp", v |-> ""]

\* the first then, src/index.js:157-164; a URIError of decodeURI rejects it
\* before res.arrayBuffer() is called
ThenExtract ==
    /\ fn = "fetchDownloadBlob"
    /\ stage = "responded"
    /\ LET d == decodeURI(res.disposition)
       IN  IF d.ok
           THEN /\ fileName' = DownloadFileName(d.v)
                /\ buffer' = [state |-> "pending", byteLength |-> 0]
                /\ stage' = "extracted"
                /\ UNCHANGED error
           ELSE /\ stage' = "rejected"
                /\ error' = [name |-> "URIError",
                             message |-> Some("URI malformed")]
                /\ UNCHANGED <<fileName, buffer>>
    /\ UNCHANGED <<fn, url, method, params, options, reqUrl, timer, aborted, now,
                   returned, res, result, console, dom, unhandled>>

\* the second then, src/index.js:165-179: it attaches the callback to buffer
\* and returns undefined without waiting for it
ThenDownload ==
    /\ fn = "fetchDownloadBlob"
    /\ stage = "extracted"
    /\ stage' = "settled"
    /\ returned' = "fulfilled"
    /\ result' = Some(Undefined)
    /\ UNCHANGED <<fn, url, method, params, options, reqUrl, timer, aborted, now,
                   res, error, console, fileName, buffer, dom, unhandled>>

\* the download side effect, src/index.js:169-174
Download(name) ==
    << <<"createElement", "a">>,
       <<"createObjectURL", "blob">>,
       <<"download", name.v>>,
       <<"click", "blob">>,
       <<"revokeObjectURL", "blob">> >>

\* a variant of BufferCallback that downloads whatever the byteLength is
BufferCallbackAnyLength(byteLength, name) ==
    IF byteLength >= 0
    THEN [dom |-> Download(name), log |-> <<>>]
    ELSE [dom |-> <<>>,
          log |-> << <<"error", "file export error, no such file", "">> >>]

\* what the callback of buffer does with a body of byteLength bytes,
\* src/index.js:167-178
BufferCallback(byteLength, name) ==
    IF byteLength > 0
    THEN [dom |-> Download(name), log |-> <<>>]
    ELSE [dom |-> <<>>,
          log |-> << <<"error", "file export error, no such file", "">> >>]

\* res.arrayBuffer() fulfils and the callback of buffer.then runs
BufferResolve(byteLength) ==
    /\ fn = "fetchDownloadBlob"
    /\ stage = "settled"
    /\ buffer.state = "pending"
    /\ buffer' = [state |-> "fulfilled", byteLength |-> byteLength]
    /\ LET out == BufferCallback(byteLength, fileName)
       IN  /\ dom' = dom \o out.dom
           /\ console' = console \o out.log
    /\ UNCHANGED <<fn, url, method, params, options, reqUrl, timer, aborted, now,
                   stage, returned, res, error, result, fileName, unhandled>>

\* res.arrayBuffer() rejects: the promise buffer.then(...) made is rejected
\* too, and nothing handles it (the second then does not return it)
BufferReject ==
    /\ fn = "fetchDownloadBlob"
    /\ stage = "settled"
    /\ buffer.state = "pending"
    /\ buffer' = [buffer EXCEPT !.state = "rejected"]
    /\ unhandled' = TRUE
    /\ UNCHANGED <<fn, url, method, params, options, reqUrl, timer, aborted, now,
                   stage, returned, res, error, result, console, fileName,
                   dom>>

\* .catch(error => {}), src/index.js:180
CatchDownload ==
    /\ fn = "fetchDownloadBlob"
    /\ stage = "rejected"
    /\ stage' = "settled"
    /\ returned' = "fulfilled"
    /\ result' = Some(Undefined)
    /\ UNCHANGED <<fn, url, method, params, options, reqUrl, timer, aborted, now,
                   res, error, console, fileName, buffer, dom, unhandled>>

----------------------------------------------------------------------------
(* The specification *)

\* the calls: one call per behaviour, with any arguments
CallFetchRequest ==
    /\ fn = "none"
    /\ \E u \in Urls, m \in Methods,
          p \in RequestParams \cup {DefaultRequestParams} : fetchRequest(u, m, p)

CallFetchFormData ==
    /\ fn = "none"
    /\ \E u \in Urls, d \in FormPayloads,
          p \in OtherParams \cup {DefaultOtherParams} : fetchFormData(u, d, p)

CallFetchDownloadBlob ==
    /\ fn = "none"
    /\ \E u \in Urls, p \in OtherParams \cup {DefaultOtherParams} :
          fetchDownloadBlob(u, p)

Respond ==
    \E s \in Statuses :
        \E d \in (IF fn = "fetchDownloadBlob" THEN Dispositions ELSE {None}) :
            FetchResolve(s, d)

Abort == \E m \in AbortMessages : TimerFire(m)

Next ==
    \/ CallFetchRequest
    \/ CallFetchFormData
    \/ CallFetchDownloadBlob
    \/ Respond
    \/ FetchReject
    \/ Tick
    \/ Abort
    \/ \E v \in JsonValues : JsonResolve(v)
    \/ JsonReject
    \/ ThenInterceptors
    \/ CatchRequest
    \/ CatchFormData
    \/ ThenExtract
    \/ ThenDownload
    \/ \E n \in 0..MaxBytes : BufferResolve(n)
    \/ BufferReject
    \/ CatchDownload

Spec == Init /\ [][Next]_vars

\* The event loop runs every queued promise callback and every due timer,
\* and time passes; the network owes nothing (a server may never respond,
\* a body may never arrive).
Fairness ==
    /\ WF_vars(Tick)
    /\ WF_vars(Abort)
    /\ WF_vars(ThenInterceptors)
    /\ WF_vars(CatchRequest)
    /\ WF_vars(CatchFormData)
    /\ WF_vars(ThenExtract)
    /\ WF_vars(ThenDownload)
    /\ WF_vars(CatchDownload)

LiveSpec == Init /\ [][Next]_vars /\ Fairness

----------------------------------------------------------------------------
(* Properties *)

Range(f) == {f[i] : i \in DOMAIN f}

\* a request was handed to fetch
Issued == returned \in {"pending", "fulfilled", "rejected"}

\* C1: a call of fetchRequest or fetchFormData, with any params and any
\* outcome of the request, returns a promise that never rejects, and the
\* call itself raises no error.
C1_NeverRejectsNorThrows ==
    fn \in {"fetchRequest", "fetchFormData"}
        => returned \in {"pending", "fulfilled"}

\* C2: a fetchRequest call with params.timeout = 0 schedules no abort timer,
\* and its abort controller is never signaled by a timeout.
C2_NoTimerWhenTimeoutZero ==
    (fn = "fetchRequest" /\ params.timeout = Some(0))
        => (timer.state = "none" /\ ~aborted)

\* the timeout of a call as C3 reads it: params.timeout, 10 when not given
ClaimedTimeout == IF IsSome(params.timeout) THEN Val(params.timeout) ELSE 10

\* a fetchRequest call that issued its request with a timeout t > 0
TimedRequest == fn = "fetchRequest" /\ Issued /\ ClaimedTimeout > 0

\* the fetch, or the reading of its body, is still going on
InFlight == stage \in {"fetching", "parsing"}

\* C3: a fetchRequest call with timeout t > 0 (10 when not given) has a timer
\* of t seconds; when the timer finds the request still in flight at t
\* seconds the controller is signaled and the fetch rejects with an
\* AbortError, a call so rejected resolves to undefined, and every such call
\* settles even when the server never responds.
C3_TimeoutSettles ==
    /\ [](TimedRequest =>
            /\ timer.state \in {"armed", "fired"}
            /\ timer.delay = ClaimedTimeout * 1000
            /\ now <= ClaimedTimeout
            /\ (timer.state = "fired" <=> aborted)
            /\ (aborted => now = ClaimedTimeout /\ ~InFlight)
            /\ (error.name = "AbortError" /\ returned = "fulfilled"
                    => result = Some(Undefined)))
    /\ [][(TimedRequest /\ InFlight /\ aborted' /\ ~aborted)
            => (stage' = "rejected" /\ error'.name = "AbortError")]_vars
    /\ ((TimedRequest /\ InFlight /\ now = ClaimedTimeout) ~> aborted)
    /\ ((TimedRequest /\ error.name = "AbortError")
            ~> (returned = "fulfilled" /\ result = Some(Undefined)))
    /\ (TimedRequest ~> returned = "fulfilled")

C3_Witness ==
    /\ fn = "fetchRequest"
    /\ params.timeout = None
    /\ now = 10
    /\ timer.state = "fired"
    /\ aborted
    /\ res = NoRes
    /\ error.name = "AbortError"
    /\ returned = "fulfilled"
    /\ result = Some(Undefined)

\* C4: the header collection of the request that fetchRequest, fetchFormData
\* and fetchDownloadBlob issue holds every caller-supplied header under its
\* own name with its own value, whatever the number of entries, in addition
\* to the defaults.
C4_HeadersAppended ==
    (fn # "none" /\ IsSome(params.headers)) =>
        /\ Issued
        /\ \A i \in 1..Len(Val(params.headers)) :
              <<Lower(Val(params.headers)[i][1]), Val(params.headers)[i][2]>>
                  \in Range(options.headers)
        /\ (fn = "fetchRequest" =>
              <<Lower(ContentType), "application/json">> \in Range(options.headers))

\* C5: the file name of a download is the decoded Content-Disposition header
\* when the response has one, and the current timestamp when it has none.
C5_FileNameOrTimestamp ==
    (fn = "fetchDownloadBlob" /\ fileName.kind # "none") =>
        IF res.disposition = None
        THEN fileName.kind = "timestamp"
        ELSE Val(res.disposition) # <<>> =>
                fileName = [kind |-> "string", v |-> decodeURI(res.disposition).v]

\* C6: every rejection that arises during a fetchDownloadBlob call, from the
\* fetch or from reading the body buffer, is caught: the returned promise
\* never rejects and no rejection is left unhandled.
C6_AllRejectionsCaught ==
    fn = "fetchDownloadBlob" => (returned # "rejected" /\ ~unhandled)

\* the URL fetchRequest requests for a url and a query, as C7 states it
ClaimedUrl(u, query) ==
    IF IsSome(query) /\ paramsFormat(Val(query)) # ""
    THEN u \o "?" \o paramsFormat(Val(query))
    ELSE u

\* C7: fetchFormData and fetchDownloadBlob request the URL fetchRequest
\* requests for the same url and query: url?query when the serialized query
\* is not empty, the url unchanged when the query is empty or absent.
C7_SameUrlAsFetchRequest ==
    (fn \in {"fetchFormData", "fetchDownloadBlob"} /\ Issued) =>
        /\ reqUrl = ClaimedUrl(url, params.query)
        /\ reqUrl = RequestUrl(url, params.query)

\* the message C8 names for a status of the table
ClaimedMessage(status) ==
    CASE status = 403 -> "no access"
      [] status = 404 -> "resource does not exist"
      [] OTHER -> errCodes[status]

\* C8: what interceptors does is fixed by (status, ok): the parsed JSON body
\* when status is truthy and ok; otherwise the message of the status thrown
\* when the status is 400, 403, 404, 413 or 500, after an info log exactly
\* when it is 403; otherwise undefined, nothing thrown.
C8_InterceptorsOutcome ==
    /\ [][(fn \in {"fetchRequest", "fetchFormData"} /\ stage = "responded") =>
            IF res.status # 0 /\ res.ok
            THEN /\ stage' = "parsing"
                 /\ returned' = "pending"
                 /\ console' = console
            ELSE IF res.status \in {400, 403, 404, 413, 500}
            THEN /\ stage' = "rejected"
                 /\ error' = [name |-> ClaimedMessage(res.status),
                              message |-> None]
                 /\ console' = IF res.status = 403
                               THEN Append(console, <<"info", "no access">>)
                               ELSE console
            ELSE /\ stage' = "settled"
                 /\ returned' = "fulfilled"
                 /\ result' = Some(Undefined)
                 /\ console' = console]_vars
    /\ [][(stage = "parsing" /\ returned' = "fulfilled")
            => result' \in {Some(v) : v \in JsonValues}]_vars

C8_Witness ==
    /\ fn = "fetchRequest"
    /\ res.status = 403
    /\ ~res.ok
    /\ stage = "rejected"
    /\ error = [name |-> "no access", message |-> None]
    /\ console = << <<"info", "no access">> >>

\* C9: the request of a fetchRequest call with method 'get' has no body,
\* whatever params.data is; with any other method and params.data given the
\* body is the JSON text of params.data.
C9_BodyOnlyWhenNotGet ==
    (fn = "fetchRequest" /\ Issued) =>
        /\ method = "get" => options.body = None
        /\ (method # "get" /\ IsSome(params.data)) =>
              /\ options.body = Some(JSONstringify(Val(params.data)))
              /\ Val(params.data) = <<>> => options.body = Some("{}")
              /\ Val(params.data) = <<DataPool[1]>>
                    => options.body = Some("{\"a\":1}")

C9_Witness ==
    /\ fn = "fetchRequest"
    /\ method = "get"
    /\ params.data = Some(<<DataPool[1]>>)
    /\ stage = "fetching"
    /\ options.body = None

\* the position of the first event of a kind in the download side effects
IndexOf(kind) ==
    CHOOSE i \in 1..Len(dom) :
        dom[i][1] = kind /\ \A j \in 1..(i - 1) : dom[j][1] # kind

Has(kind) == \E i \in 1..Len(dom) : dom[i][1] = kind

ErrorLogged == \E i \in 1..Len(console) : console[i][1] = "error"

\* C10: with an empty body buffer the download side effect is not performed
\* and an error is logged; the side effect is performed only with a buffer
\* that is not empty, and its object URL is revoked after the click.
C10_DownloadOnlyWhenNonEmpty ==
    fn = "fetchDownloadBlob" =>
        /\ (buffer.state = "fulfilled" /\ buffer.byteLength = 0)
              => (dom = <<>> /\ ErrorLogged)
        /\ dom # <<>> =>
              /\ buffer.state = "fulfilled"
              /\ buffer.byteLength > 0
              /\ Has("createObjectURL") /\ Has("click") /\ Has("revokeObjectURL")
              /\ IndexOf("createObjectURL") < IndexOf("click")
              /\ IndexOf("click") < IndexOf("revokeObjectURL")
        /\ (buffer.state = "fulfilled" /\ buffer.byteLength > 0) => dom # <<>>

C10_Witness ==
    /\ fn = "fetchDownloadBlob"
    /\ buffer = [state |-> "fulfilled", byteLength |-> 0]
    /\ dom = <<>>
    /\ ErrorLogged

====
